---- MODULE Spec2Model ----
(***************************************************************************)
(* Model of ducascopy_download.py: read_day, bi5_to_df, normalize_df,      *)
(* download_period and download_data.                                      *)
(*                                                                         *)
(* Strings whose characters matter (date strings, formatted numbers) are   *)
(* sequences of one-character strings.  A datetime is [ordinal, second]:   *)
(* the proleptic Gregorian ordinal of its date and the second of that day. *)
(* A DataFrame is the sequence of its rows; reset_index(drop=True) only    *)
(* renumbers the index, which is the position in the sequence.             *)
(***************************************************************************)
EXTENDS Integers, Sequences, FiniteSets, TLC

\* ------------------------------------------------------------- bounds
\* longest symbols / symbols_names list drawn as input
MaxSymbols == 2
\* longest date range (in days) drawn as input
MaxDays == 2
\* most requests one call of download_data drawn as input can make
MaxFetches == 6
\* longest raw buffer drawn as input of bi5_to_df taken alone
MaxLen == 13

\* ------------------------------------------------------------- helpers
Min(a, b) == IF a < b THEN a ELSE b

Max(a, b) == IF a > b THEN a ELSE b

Digits == <<"0", "1", "2", "3", "4", "5", "6", "7", "8", "9">>

IsDigit(c) == \E i \in 1..10 : Digits[i] = c

\* int() of one decimal digit character
DigitVal(c) == (CHOOSE i \in 1..10 : Digits[i] = c) - 1

\* int() of a string of decimal digits, one leading space allowed (int(" 5") = 5)
RECURSIVE IntOf(_)
IntOf(s) ==
    IF Len(s) = 0 THEN 0
    ELSE IF s[1] = " " THEN IntOf(Tail(s))
    ELSE IntOf(SubSeq(s, 1, Len(s) - 1)) * 10 + DigitVal(s[Len(s)])

\* str(n) for n >= 0
RECURSIVE DecStr(_)
DecStr(n) == IF n < 10 THEN <<Digits[n + 1]>> ELSE Append(DecStr(n \div 10), Digits[(n % 10) + 1])

RECURSIVE ZeroPad(_, _)
ZeroPad(s, width) == IF Len(s) >= width THEN s ELSE ZeroPad(<<"0">> \o s, width)

\* f'{n:0<width>d}' for n >= 0: at least width digits, zero-padded on the left
FormatD(n, width) == ZeroPad(DecStr(n), width)

\* Python slice s[left:right] of a sequence (0-based, clamped to the sequence)
Slice(s, left, right) == SubSeq(s, Min(left, Len(s)) + 1, Min(right, Len(s)))

\* ------------------------------------------------------------- datetime
IsLeap(y) == (y % 4 = 0) /\ ((y % 100 # 0) \/ (y % 400 = 0))

DaysInMonth(y, m) ==
    IF m = 2 THEN (IF IsLeap(y) THEN 29 ELSE 28)
    ELSE IF m \in {4, 6, 9, 11} THEN 30 ELSE 31

RECURSIVE DaysBeforeMonth(_, _)
DaysBeforeMonth(y, m) == IF m = 1 THEN 0 ELSE DaysBeforeMonth(y, m - 1) + DaysInMonth(y, m - 1)

DaysBeforeYear(y) ==
    LET p == y - 1 IN p * 365 + (p \div 4) - (p \div 100) + (p \div 400)

\* datetime(y, m, d) raises ValueError outside these ranges
ValidDate(y, m, d) ==
    /\ y \in 1..9999
    /\ m \in 1..12
    /\ d >= 1
    /\ d <= DaysInMonth(y, m)

\* date.toordinal()
toordinal(y, m, d) == DaysBeforeYear(y) + DaysBeforeMonth(y, m) + d

\* the years the dates of the model fall in
ModelYears == 2023..2025

\* date.fromordinal(n): the calendar date [year, month, day] with ordinal n
fromordinal(n) ==
    LET y == CHOOSE yy \in ModelYears : DaysBeforeYear(yy) < n /\ n <= DaysBeforeYear(yy + 1)
        m == CHOOSE mm \in 1..12 :
                 /\ DaysBeforeYear(y) + DaysBeforeMonth(y, mm) < n
                 /\ n <= DaysBeforeYear(y) + DaysBeforeMonth(y, mm) + DaysInMonth(y, mm)
    IN  [year |-> y, month |-> m, day |-> n - DaysBeforeYear(y) - DaysBeforeMonth(y, m)]

\* datetime + timedelta(days = dd, seconds = ss), normalised as Python normalises it
AddDelta(t, dd, ss) ==
    [ordinal |-> t.ordinal + dd + ((t.second + ss) \div 86400),
     second  |-> (t.second + ss) % 86400]

\* ------------------------------------------------------------- strptime
\* The alternatives of the regular expressions strptime compiles for %m and
\* %d, in the order the regex engine tries them.  Each yields the end index of
\* the field when it matches s from index i (0 when it does not).
At(s, i) == IF i >= 1 /\ i <= Len(s) THEN s[i] ELSE ""

MonthAlt(s, i, alt) ==
    CASE alt = 1 -> IF At(s, i) = "1" /\ At(s, i + 1) \in {"0", "1", "2"} THEN i + 1 ELSE 0
      [] alt = 2 -> IF At(s, i) = "0" /\ IsDigit(At(s, i + 1)) /\ At(s, i + 1) # "0" THEN i + 1 ELSE 0
      [] alt = 3 -> IF IsDigit(At(s, i)) /\ At(s, i) # "0" THEN i ELSE 0

DayAlt(s, i, alt) ==
    CASE alt = 1 -> IF At(s, i) = "3" /\ At(s, i + 1) \in {"0", "1"} THEN i + 1 ELSE 0
      [] alt = 2 -> IF At(s, i) \in {"1", "2"} /\ IsDigit(At(s, i + 1)) THEN i + 1 ELSE 0
      [] alt = 3 -> IF At(s, i) = "0" /\ IsDigit(At(s, i + 1)) /\ At(s, i + 1) # "0" THEN i + 1 ELSE 0
      [] alt = 4 -> IF IsDigit(At(s, i)) /\ At(s, i) # "0" THEN i ELSE 0
      [] alt = 5 -> IF At(s, i) = " " /\ IsDigit(At(s, i + 1)) /\ At(s, i + 1) # "0" THEN i + 1 ELSE 0

\* re.match of (\d\d\d\d)-(%m)-(%d) at the start of s: the pairs <<ma, da>> of
\* alternatives under which the whole pattern matches
RegexMatches(s) ==
    {a \in (1..3) \X (1..5) :
        /\ \A i \in 1..4 : IsDigit(At(s, i))
        /\ At(s, 5) = "-"
        /\ MonthAlt(s, 6, a[1]) # 0
        /\ At(s, MonthAlt(s, 6, a[1]) + 1) = "-"
        /\ DayAlt(s, MonthAlt(s, 6, a[1]) + 2, a[2]) # 0}

\* (a variant that lets text after the day pass)
Unconverted_Ignored(s, end) == FALSE

\* whether text remains after the match: strptime's "unconverted data remains"
Unconverted(s, end) == end # Len(s)

\* datetime.strptime(s, '%Y-%m-%d'): [ok |-> TRUE, ordinal, second] or a ValueError
strptime(s) ==
    LET ms == RegexMatches(s) IN
    IF ms = {} THEN [ok |-> FALSE]
    ELSE
      \* the engine returns the first match in alternative order
      LET a    == CHOOSE x \in ms : \A z \in ms : x[1] < z[1] \/ (x[1] = z[1] /\ x[2] <= z[2])
          mEnd == MonthAlt(s, 6, a[1])
          dEnd == DayAlt(s, mEnd + 2, a[2])
          y    == IntOf(SubSeq(s, 1, 4))
          m    == IntOf(SubSeq(s, 6, mEnd))
          d    == IntOf(SubSeq(s, mEnd + 2, dEnd))
      IN  IF Unconverted(s, dEnd) THEN [ok |-> FALSE]
          ELSE IF ~ValidDate(y, m, d) THEN [ok |-> FALSE]  \* day/year out of range
          ELSE [ok |-> TRUE, ordinal |-> toordinal(y, m, d), second |-> 0]

\* ------------------------------------------------------------- struct
\* A format descriptor is '>' followed by its field codes, written one code per
\* field: <<"I","B","B","B","B","B">> is '>I5B'.  Big-endian, no padding.
FieldSize(c) == CASE c = "I" -> 4 [] c = "H" -> 2 [] c = "B" -> 1

RECURSIVE calcsize(_)
\* struct.calcsize(fmt)
calcsize(fmt) == IF Len(fmt) = 0 THEN 0 ELSE FieldSize(fmt[1]) + calcsize(Tail(fmt))

RECURSIVE BigEndian(_)
\* the unsigned integer a byte string encodes, most significant byte first
BigEndian(bytes) ==
    IF Len(bytes) = 0 THEN 0
    ELSE BigEndian(SubSeq(bytes, 1, Len(bytes) - 1)) * 256 + bytes[Len(bytes)]

\* offset of field k (1-based) in a chunk
FieldOffset(fmt, k) == calcsize(SubSeq(fmt, 1, k - 1))

\* struct.unpack(fmt, chunk): the tuple of the fields' values
unpack(fmt, chunk) ==
    [k \in 1..Len(fmt) |->
        BigEndian(SubSeq(chunk, FieldOffset(fmt, k) + 1, FieldOffset(fmt, k) + FieldSize(fmt[k])))]

\* (a variant that stops one chunk early)
chunk_count_short(raw_data, fmt) == Max(0, (Len(raw_data) \div calcsize(fmt)) - 1)

\* number of chunks bi5_to_df decodes
chunk_count(raw_data, fmt) == Len(raw_data) \div calcsize(fmt)

\* one row of the frame bi5_to_df builds, from the tuple of one chunk
Columns(t) ==
    [time |-> t[1], open |-> t[2], high |-> t[3], low |-> t[4], close |-> t[5], volume |-> t[6]]

\* bi5_to_df(raw_data, fmt): row step+1 is unpacked from raw_data[left:right]
bi5_to_df(raw_data, fmt) ==
    LET chunk_size == calcsize(fmt) IN
    [n \in 1..chunk_count(raw_data, fmt) |->
        LET step  == n - 1
            left  == chunk_size * step
            right == chunk_size * step + chunk_size
        IN  Columns(unpack(fmt, Slice(raw_data, left, right)))]

\* x / 1000 as an exact decimal: whole part and thousandths
Div1000(x) == [whole |-> x \div 1000, thousandths |-> x % 1000]

\* (a variant that keeps the date and wraps the seconds)
NormalTime_Wrap(day, x) == [ordinal |-> day.ordinal, second |-> x % 86400]

\* the time column of normalize_df: day + timedelta(seconds = x)
NormalTime(day, x) == AddDelta(day, 0, x)

\* normalize_df(df, day)
normalize_df(df, day) ==
    [n \in 1..Len(df) |->
        [time   |-> NormalTime(day, df[n].time),
         open   |-> Div1000(df[n].open),
         high   |-> Div1000(df[n].high),
         low    |-> Div1000(df[n].low),
         close  |-> Div1000(df[n].close),
         volume |-> df[n].volume]]

\* ------------------------------------------------------------- read_day
url_prefix == "https://datafeed.dukascopy.com/datafeed"

file_name == "BID_candles_min_1.bi5"

\* (a variant that numbers the months from 1, as the calendar does)
MonthSegment_Calendar(month) == FormatD(month, 2)

\* the month segment of the url
MonthSegment(month) == FormatD(month - 1, 2)

\* the url read_day requests, as its segments between the '/' separators
Url(symbol, day) ==
    LET c == fromordinal(day.ordinal) IN
    <<url_prefix, symbol, FormatD(c.year, 4), MonthSegment(c.month), FormatD(c.day, 2), file_name>>

\* A response body: nothing, bytes that are no LZMA stream, or an LZMA stream
\* (possibly truncated) that decompresses to `data`.
EmptyBody == [kind |-> "empty", data |-> <<>>]

CorruptBody == [kind |-> "corrupt", data |-> <<>>]

LzmaBody(bytes) == [kind |-> "lzma", data |-> bytes]

\* the outcome of requests.get: a response, or a network failure that raises
NetworkFailure == [net |-> "error", status |-> 0, body |-> EmptyBody]

Response(status, body) == [net |-> "ok", status |-> status, body |-> body]

\* (a variant that tests for another status)
IsNotFound_BadRequest(r) == r.status = 400

\* whether read_day answers -1 for a response
IsNotFound(r) == r.status = 404

\* whether `return decompresseddata` finds the local bound: it is bound only by
\* a decompression that succeeded
Bound(r) == r.body.kind = "lzma"

\* read_day(symbol, day) when requests.get(url) yields r
read_day(r) ==
    IF r.net = "error" THEN [outcome |-> "raise", exc |-> "ConnectionError", bytes |-> <<>>]
    ELSE IF IsNotFound(r) THEN [outcome |-> "minus1", exc |-> "", bytes |-> <<>>]
    ELSE IF Bound(r) THEN [outcome |-> "bytes", exc |-> "", bytes |-> r.body.data]
    ELSE [outcome |-> "raise", exc |-> "UnboundLocalError", bytes |-> <<>>]

\* ------------------------------------------------------------- inputs
Tickers == <<"EURUSD", "GBPUSD", "USDJPY", "AUDUSD">>

FullNames == <<"Euro", "Pound", "Yen", "Aussie">>

\* the symbols lists drawn as input
SymbolLists == {SubSeq(Tickers, 1, n) : n \in 0..MaxSymbols}

\* the symbols_names lists drawn as input: distinct names, or one name repeated
NameLists ==
    {SubSeq(FullNames, 1, n) : n \in 0..MaxSymbols} \cup {[k \in 1..n |-> "Euro"] : n \in 0..MaxSymbols}

\* the start_day / end_day strings drawn as input
DateStrings ==
    {<<"2", "0", "2", "3", "-", "1", "2", "-", "3", "1">>,
     <<"2", "0", "2", "4", "-", "0", "1", "-", "0", "1">>,
     <<"2", "0", "2", "4", "-", "0", "1", "-", "0", "2">>,
     <<"2", "0", "2", "4", "-", "1", "-", "3">>,
     <<"2", "0", "2", "4", "-", "0", "2", "-", "2", "8">>,
     <<"2", "0", "2", "4", "-", "0", "3", "-", "0", "1">>,
     <<"2", "0", "2", "4", "-", "0", "2", "-", "3", "0">>,
     <<"2", "0", "2", "4", "/", "0", "1", "/", "0", "1">>,
     <<"2", "4", "-", "0", "1", "-", "0", "1">>,
     <<"2", "0", "2", "4", "-", "0", "1", "-", "0", "1", " ">>}

\* '>I5B'
PipelineFormats == {<<"I", "B", "B", "B", "B", "B">>}

\* '>6B', '>H5B' and '>I5B'
ParseFormats ==
    {<<"B", "B", "B", "B", "B", "B">>, <<"H", "B", "B", "B", "B", "B">>, <<"I", "B", "B", "B", "B", "B">>}

\* the byte values the buffers of bi5_to_df taken alone are built from (top bit
\* clear: the value of an "I" field stays below 2^31)
ByteSamples == {1, 127}

\* Decompressed payloads the server's LZMA bodies carry, read under '>I5B':
\* two records at 60 s and 120 s and one trailing byte
PayloadAscending ==
    <<0, 0, 0, 60, 10, 12, 9, 11, 5,   0, 0, 0, 120, 11, 13, 10, 12, 7,   255>>

\* three records at 2147483647 s, 86400 s and 0 s (the integers here are 32-bit
\* signed, so the payloads keep the top bit of an 'I' field clear)
PayloadUnordered ==
    <<127, 255, 255, 255, 1, 1, 1, 1, 1,   0, 1, 81, 128, 2, 2, 2, 2, 2,   0, 0, 0, 0, 3, 3, 3, 3, 3>>

\* fewer bytes than one chunk
PayloadShort == <<0, 0, 0>>

Payloads == {PayloadAscending, PayloadUnordered, PayloadShort}

\* what requests.get may yield for one url
Responses ==
    {NetworkFailure, Response(404, CorruptBody)}
    \cup {Response(200, b) : b \in {EmptyBody, CorruptBody} \cup {LzmaBody(p) : p \in Payloads}}
    \cup {Response(500, b) : b \in {CorruptBody, LzmaBody(PayloadAscending)}}

\* ------------------------------------------------------------- state
VARIABLES
    entry,          \* the function the caller calls
    symbols, symbols_names, start_day, end_day, fmt,    \* its arguments
    pc,             \* position of the (single) thread
    i,              \* pairs of zip(symbols, symbols_names) consumed
    symbol,         \* download_period's symbol
    start,          \* download_period's parsed start_day
    period,         \* download_period's period
    d,              \* download_period's loop variable
    current_day,    \* download_period's current_day
    raw_day,        \* what read_day last gave
    df,             \* the frame of the last day parsed
    dataset,        \* download_period's accumulator
    data,           \* download_data's accumulator
    res,            \* the last response of requests.get
    fetched,        \* history: the requests issued, in order, each with the
                    \* number of rows its day gave and whether they were orderly
    error,          \* the exception that ended the call ("" when none)
    returned,       \* whether the call returned to its caller
    result          \* the table it returned

vars ==
    <<entry, symbols, symbols_names, start_day, end_day, fmt, pc, i, symbol, start, period, d,
      current_day, raw_day, df, dataset, data, res, fetched, error, returned, result>>

inputs == <<entry, symbols, symbols_names, start_day, end_day, fmt>>

NoDay == [ordinal |-> 0, second |-> 0]

NoResponse == [net |-> "none", status |-> 0, body |-> EmptyBody]

NoRawDay == [outcome |-> "none", exc |-> "", bytes |-> <<>>]

\* (end_day - start_day).days
DayCount(s, e) == e.ordinal - s.ordinal

\* (a variant that includes the end)
Range_Inclusive(n) == 0..n

\* the values for d of range(0, period)
Range(n) == 0..(n - 1)

\* (a variant that pads the second list with its last entry)
Zip_Padded(a, b) ==
    IF Len(b) = 0 THEN <<>> ELSE [k \in 1..Len(a) |-> <<a[k], b[Min(k, Len(b))]>>]

\* zip(a, b): the pairs, as many as the shorter list has entries
Zip(a, b) == [k \in 1..Min(Len(a), Len(b)) |-> <<a[k], b[k]>>]

\* (a variant that puts the new rows first)
Concat_Prepend(a, b) == b \o a

\* pd.concat([a, b])
Concat(a, b) == a \o b

\* tmp.loc[:, 'Ticker Full Name'] = n
Tagged(tmp, n) ==
    [k \in 1..Len(tmp) |->
        [time |-> tmp[k].time, open |-> tmp[k].open, high |-> tmp[k].high, low |-> tmp[k].low,
         close |-> tmp[k].close, volume |-> tmp[k].volume, name |-> n]]

\* whether both date strings parse and span at most MaxDays days
InBounds(s, e) ==
    strptime(s).ok /\ strptime(e).ok => DayCount(strptime(s), strptime(e)) <= MaxDays

\* whether a call with these lists and dates makes at most MaxFetches requests
FewFetches(a, b, s, e) ==
    strptime(s).ok /\ strptime(e).ok =>
        Len(Zip(a, b)) * DayCount(strptime(s), strptime(e)) <= MaxFetches

Locals ==
    /\ i = 0
    /\ symbol = ""
    /\ start = NoDay
    /\ period = 0
    /\ d = 0
    /\ current_day = NoDay
    /\ raw_day = NoRawDay
    /\ df = <<>>
    /\ dataset = <<>>
    /\ data = <<>>
    /\ res = NoResponse
    /\ fetched = <<>>
    /\ error = ""
    /\ returned = FALSE
    /\ result = <<>>

Init ==
    /\ entry \in {"download_data", "download_period"}
    /\ symbols \in SymbolLists
    /\ symbols_names \in NameLists
    /\ entry = "download_period" => Len(symbols) = 1 /\ symbols_names = <<>>
    /\ start_day \in DateStrings
    /\ end_day \in DateStrings
    /\ InBounds(start_day, end_day)
    /\ FewFetches(symbols, symbols_names, start_day, end_day)
    /\ fmt \in PipelineFormats
    /\ pc = IF entry = "download_data" THEN "data_loop" ELSE "period_call"
    /\ Locals

\* download_period, lines 124-128: parse both dates, then the empty accumulator
Prologue(s) ==
    LET sd == strptime(start_day)
        ed == strptime(end_day)
    IN  IF sd.ok /\ ed.ok
        THEN /\ pc' = "period_loop"
             /\ symbol' = s
             /\ start' = [ordinal |-> sd.ordinal, second |-> sd.second]
             /\ period' = DayCount(sd, ed)
             /\ d' = 0
             /\ dataset' = <<>>
             /\ UNCHANGED error
        ELSE /\ pc' = "raised"
             /\ error' = "ValueError"
             /\ UNCHANGED <<symbol, start, period, d, dataset>>

\* the caller calls download_period(symbol, start_day, end_day, fmt)
PeriodCall ==
    /\ pc = "period_call"
    /\ Prologue(symbols[1])
    /\ UNCHANGED <<inputs, i, current_day, raw_day, df, data, res, fetched, returned, result>>

\* download_data, lines 172-174: the next pair of the zip, and the call of
\* download_period for it
DataLoopCall ==
    /\ pc = "data_loop"
    /\ i < Len(Zip(symbols, symbols_names))
    /\ Prologue(Zip(symbols, symbols_names)[i + 1][1])
    /\ UNCHANGED <<inputs, i, current_day, raw_day, df, data, res, fetched, returned, result>>

\* download_period, lines 132-134: the frame of one day, empty for a day that is
\* skipped
DayFrame(out, f, day) ==
    IF out.outcome = "bytes" THEN normalize_df(bi5_to_df(out.bytes, f), day) ELSE <<>>

\* t1 <= t2 for datetimes
TimeLE(t1, t2) == t1.ordinal < t2.ordinal \/ (t1.ordinal = t2.ordinal /\ t1.second <= t2.second)

\* history only: whether the rows of a day's frame are in ascending time order
\* and all within the day
Orderly(frame, day) ==
    /\ \A n \in 1..Len(frame) : frame[n].time.ordinal = day.ordinal
    /\ \A n \in 1..(Len(frame) - 1) : TimeLE(frame[n].time, frame[n + 1].time)

\* download_period, lines 129-135: one iteration of the loop, requests.get
\* yielding r
FetchDay(r) ==
    /\ pc = "period_loop"
    /\ d \in Range(period)
    /\ LET day == AddDelta(start, d, 0)
           out == read_day(r)
       IN  /\ current_day' = day
           /\ res' = r
           /\ fetched' = Append(fetched, [call |-> i + 1, symbol |-> symbol, day |-> day,
                                          url |-> Url(symbol, day),
                                          rows |-> Len(DayFrame(out, fmt, day)),
                                          orderly |-> Orderly(DayFrame(out, fmt, day), day)])
           /\ CASE out.outcome = "raise" ->
                     /\ pc' = "raised"
                     /\ error' = out.exc
                     /\ UNCHANGED <<d, raw_day, df, dataset>>
                [] out.outcome = "minus1" ->
                     /\ raw_day' = out
                     /\ d' = d + 1
                     /\ UNCHANGED <<pc, error, df, dataset>>
                [] out.outcome = "bytes" ->
                     /\ raw_day' = out
                     /\ df' = DayFrame(out, fmt, day)
                     /\ dataset' = Concat(dataset, df')
                     /\ d' = d + 1
                     /\ UNCHANGED <<pc, error>>
    /\ UNCHANGED <<inputs, i, symbol, start, period, data, returned, result>>

\* download_period, lines 136-138, called by the caller itself
PeriodReturn ==
    /\ pc = "period_loop"
    /\ entry = "download_period"
    /\ d \notin Range(period)
    /\ pc' = "done"
    /\ returned' = TRUE
    /\ result' = dataset
    /\ UNCHANGED <<inputs, i, symbol, start, period, d, current_day, raw_day, df, dataset, data,
                   res, fetched, error>>

\* download_period returns to download_data, lines 175-177
DataLoopAppend ==
    /\ pc = "period_loop"
    /\ entry = "download_data"
    /\ d \notin Range(period)
    /\ data' = Concat(data, Tagged(dataset, Zip(symbols, symbols_names)[i + 1][2]))
    /\ i' = i + 1
    /\ pc' = "data_loop"
    /\ UNCHANGED <<inputs, symbol, start, period, d, current_day, raw_day, df, dataset, res,
                   fetched, error, returned, result>>

\* download_data, line 178
DataReturn ==
    /\ pc = "data_loop"
    /\ i >= Len(Zip(symbols, symbols_names))
    /\ pc' = "done"
    /\ returned' = TRUE
    /\ result' = data
    /\ UNCHANGED <<inputs, i, symbol, start, period, d, current_day, raw_day, df, dataset, data,
                   res, fetched, error>>

Next ==
    \/ PeriodCall
    \/ DataLoopCall
    \/ \E r \in Responses : FetchDay(r)
    \/ PeriodReturn
    \/ DataLoopAppend
    \/ DataReturn

Spec == Init /\ [][Next]_vars

\* ------------------------------------------------------------- bi5_to_df alone
\* the raw buffers drawn as input
Buffers == UNION {[1..n -> ByteSamples] : n \in 0..MaxLen}

InitParse ==
    /\ entry = "bi5_to_df"
    /\ symbols = <<>>
    /\ symbols_names = <<>>
    /\ start_day = <<>>
    /\ end_day = <<>>
    /\ fmt \in ParseFormats
    /\ pc = "parse"
    /\ i = 0
    /\ symbol = ""
    /\ start = NoDay
    /\ period = 0
    /\ d = 0
    /\ current_day = NoDay
    /\ raw_day \in {[outcome |-> "bytes", exc |-> "", bytes |-> b] : b \in Buffers}
    /\ df = <<>>
    /\ dataset = <<>>
    /\ data = <<>>
    /\ res = NoResponse
    /\ fetched = <<>>
    /\ error = ""
    /\ returned = FALSE
    /\ result = <<>>

\* the caller calls bi5_to_df(raw_data, fmt) on the buffer
ParseBuffer ==
    /\ pc = "parse"
    /\ df' = bi5_to_df(raw_day.bytes, fmt)
    /\ pc' = "parsed"
    /\ UNCHANGED <<inputs, i, symbol, start, period, d, current_day, raw_day, dataset, data, res,
                   fetched, error, returned, result>>

NextParse == ParseBuffer

SpecParse == InitParse /\ [][NextParse]_vars

\* ------------------------------------------------------------- properties
\* number of pairs download_data is to process
PairCount == Min(Len(symbols), Len(symbols_names))

\* a step that issued a request
Fetches == fetched' # fetched

RECURSIVE RowsOfCalls(_, _)
\* history: the rows given by the first k requests that belong to calls 1..c
RowsOfCalls(k, c) ==
    IF k = 0 THEN 0
    ELSE RowsOfCalls(k - 1, c) + (IF fetched[k].call <= c THEN fetched[k].rows ELSE 0)

\* C1: a day for which read_day answers -1 (HTTP 404) adds no row, does not end
\* the call, and the loop goes on with the next day; the rows any other day
\* adds are those decoded from that day's own response, appended to the rows
\* so far, whatever days were skipped before it.
C1_NotFoundSkipsDay ==
    [][/\ (Fetches /\ res'.net = "ok" /\ res'.status = 404) =>
            /\ pc' = "period_loop"
            /\ error' = ""
            /\ d' = d + 1
            /\ dataset' = dataset
            /\ data' = data
       /\ (Fetches /\ res'.net = "ok" /\ res'.status # 404 /\ pc' # "raised") =>
            /\ d' = d + 1
            /\ dataset' = dataset \o normalize_df(bi5_to_df(res'.body.data, fmt), current_day')
      ]_vars

\* download_period ended after a day with rows and a last day that was not found
C1_Witness ==
    /\ entry = "download_period"
    /\ pc = "done"
    /\ res.net = "ok"
    /\ res.status = 404
    /\ Len(fetched) >= 2
    /\ Len(result) > 0

C4_ChunksInOrder ==
    pc = "parsed" =>
        LET raw == raw_day.bytes
            chunk_size == calcsize(fmt)
        IN  /\ Len(df) * chunk_size <= Len(raw)
            /\ Len(raw) < (Len(df) + 1) * chunk_size
            /\ \A k \in 0..(Len(df) - 1) :
                  \A f \in 1..Len(fmt) :
                      LET first == k * chunk_size + FieldOffset(fmt, f) + 1
                          value == BigEndian(SubSeq(raw, first, first + FieldSize(fmt[f]) - 1))
                      IN  CASE f = 1 -> df[k + 1].time = value
                            [] f = 2 -> df[k + 1].open = value
                            [] f = 3 -> df[k + 1].high = value
                            [] f = 4 -> df[k + 1].low = value
                            [] f = 5 -> df[k + 1].close = value
                            [] f = 6 -> df[k + 1].volume = value
            /\ Len(raw) < chunk_size => df = <<>>

\* a buffer of two chunks and some bytes more was parsed
C4_Witness ==
    /\ pc = "parsed"
    /\ Len(df) = 2
    /\ Len(raw_day.bytes) % calcsize(fmt) # 0
    /\ df[1] # df[2]

\* C7: the url of every request is prefix/symbol/YYYY/MM/DD/BID_candles_min_1.bi5
\* with YYYY the year in four digits, DD the day of the month in two, and MM
\* the calendar month minus 1 in two digits (00..11).
C7_UrlMonthZeroBased ==
    \A k \in 1..Len(fetched) :
        LET u == fetched[k].url IN
        /\ Len(u) = 6
        /\ u[1] = url_prefix
        /\ u[2] = fetched[k].symbol
        /\ u[6] = file_name
        /\ Len(u[3]) = 4
        /\ Len(u[4]) = 2
        /\ Len(u[5]) = 2
        /\ \A c \in 1..4 : IsDigit(u[3][c])
        /\ \A c \in 1..2 : IsDigit(u[4][c]) /\ IsDigit(u[5][c])
        /\ IntOf(u[4]) \in 0..11
        /\ ValidDate(IntOf(u[3]), IntOf(u[4]) + 1, IntOf(u[5]))
        /\ toordinal(IntOf(u[3]), IntOf(u[4]) + 1, IntOf(u[5])) = fetched[k].day.ordinal

\* a day of December and a day of January were requested
C7_Witness ==
    /\ Len(fetched) >= 2
    /\ fetched[1].url[4] = <<"1", "1">>
    /\ fetched[2].url[4] = <<"0", "0">>
    /\ fetched[2].url[3] = <<"2", "0", "2", "4">>

\* C10: download_data takes the pairs (symbols[k], symbols_names[k]) in order,
\* k = 1 .. min(len(symbols), len(symbols_names)), and no more: entries beyond
\* the shorter list cause no request and no error, and every row of block k
\* carries symbols_names[k].
C10_PairsInLockstep ==
    entry = "download_data" =>
        /\ i <= PairCount
        /\ \A k \in 1..Len(fetched) :
              /\ fetched[k].call \in 1..PairCount
              /\ fetched[k].symbol = symbols[fetched[k].call]
              /\ k > 1 => fetched[k - 1].call <= fetched[k].call
        /\ error \in {"ValueError", "ConnectionError", "UnboundLocalError"} <=> pc = "raised"
        /\ returned =>
              /\ i = PairCount
              /\ Len(result) = RowsOfCalls(Len(fetched), PairCount)
              /\ \A a \in 1..Len(result) :
                    \E c \in 1..PairCount :
                        /\ RowsOfCalls(Len(fetched), c - 1) < a
                        /\ a <= RowsOfCalls(Len(fetched), c)
                        /\ result[a].name = symbols_names[c]

\* download_data returned rows for lists of different lengths
C10_Witness ==
    /\ entry = "download_data"
    /\ returned
    /\ Len(symbols) # Len(symbols_names)
    /\ Len(result) > 0

\* the display names of the pairs processed are pairwise distinct
DistinctNames ==
    \A a, b \in 1..PairCount : a # b => symbols_names[a] # symbols_names[b]

\* rows tagged with the name at an earlier position come first
TagsInListOrder ==
    \A a, b \in 1..Len(result) :
        (\E p, q \in 1..PairCount :
            /\ p < q
            /\ result[a].name = symbols_names[p]
            /\ result[b].name = symbols_names[q]) => a < b

\* within each tag the rows are in ascending time order
TimesAscendingPerTag ==
    \A a, b \in 1..Len(result) :
        (a < b /\ result[a].name = result[b].name) => TimeLE(result[a].time, result[b].time)

\* (C3 as stated) in the table download_data returns, the rows of an earlier
\* display name precede those of a later one, and within each tag the rows are
\* in ascending time order, whatever the payloads decode to.
C3_AlwaysAscending ==
    (entry = "download_data" /\ returned) => (TagsInListOrder /\ TimesAscendingPerTag)

\* C3: in the table download_data returns, when the display names are pairwise
\* distinct, the rows of an earlier display name precede those of a later
\* one; every day of the range was requested for every pair and each tag
\* holds as many rows as its days gave; and when the decoded time offsets of
\* every day are ascending and below one day, the rows of each tag are in
\* ascending time order and each day requested is present with all its rows.
C3_BlocksInOrder ==
    (entry = "download_data" /\ returned /\ DistinctNames) =>
        /\ TagsInListOrder
        /\ Len(fetched) = PairCount * Max(0, period)
        /\ \A c \in 1..PairCount :
              Cardinality({a \in 1..Len(result) : result[a].name = symbols_names[c]})
                  = RowsOfCalls(Len(fetched), c) - RowsOfCalls(Len(fetched), c - 1)
        /\ (\A k \in 1..Len(fetched) : fetched[k].orderly) =>
              /\ TimesAscendingPerTag
              /\ \A k \in 1..Len(fetched) :
                    Cardinality({a \in 1..Len(result) :
                                    /\ result[a].name = symbols_names[fetched[k].call]
                                    /\ result[a].time.ordinal = fetched[k].day.ordinal})
                        = fetched[k].rows

\* download_data returned two blocks of orderly rows over two days, one day
\* of the second block giving no row
C3_Witness ==
    /\ entry = "download_data"
    /\ returned
    /\ DistinctNames
    /\ PairCount = 2
    /\ Len(fetched) = 4
    /\ \A k \in 1..4 : fetched[k].orderly
    /\ fetched[1].rows > 0
    /\ fetched[2].rows > 0
    /\ fetched[3].rows = 0
    /\ fetched[4].rows > 0

\* YYYY-MM-DD exactly: ten characters, digits around two hyphens
StrictShape(s) ==
    /\ Len(s) = 10
    /\ \A c \in {1, 2, 3, 4, 6, 7, 9, 10} : IsDigit(s[c])
    /\ s[5] = "-"
    /\ s[8] = "-"

\* YYYY-M-D with a month of one or two digits and a day of one or two digits
\* or of a space and a digit
LooseShape(s) ==
    \E ml, dl \in 1..2 :
        /\ Len(s) = 6 + ml + dl
        /\ \A c \in 1..4 : IsDigit(s[c])
        /\ s[5] = "-"
        /\ \A c \in 6..(5 + ml) : IsDigit(s[c])
        /\ s[6 + ml] = "-"
        /\ IsDigit(s[Len(s)])
        /\ dl = 2 => (IsDigit(s[Len(s) - 1]) \/ s[Len(s) - 1] = " ")

\* the call fails on the dates before any request, and returns no table
FailsBeforeFetch ==
    /\ fetched = <<>>
    /\ ~returned
    /\ pc # "done"
    /\ pc = "raised" => error = "ValueError"

DayParsed == entry # "bi5_to_df" /\ pc # "raised" /\ raw_day.outcome = "bytes"

\* seconds from day 00:00:00 to t
SecondsSince(day, t) == (t.ordinal - day.ordinal) * 86400 + t.second - day.second

\* (C6 as stated) every row of a day has time = day + time_offset seconds, and
\* that time is within the day, for every time offset the parser decodes.
C6_TimeWithinDay ==
    DayParsed =>
        LET records == bi5_to_df(raw_day.bytes, fmt) IN
        /\ Len(df) = Len(records)
        /\ \A n \in 1..Len(df) :
              /\ SecondsSince(current_day, df[n].time) = records[n].time
              /\ df[n].time.ordinal = current_day.ordinal

\* C6: every row of a day has time = day + time_offset seconds; that time is
\* within the day exactly when the time offset is below 86400.
C6_TimeIsDayPlusOffset ==
    DayParsed =>
        LET records == bi5_to_df(raw_day.bytes, fmt) IN
        /\ Len(df) = Len(records)
        /\ \A n \in 1..Len(df) :
              /\ SecondsSince(current_day, df[n].time) = records[n].time
              /\ df[n].time.second \in 0..86399
              /\ df[n].time.ordinal = current_day.ordinal <=> records[n].time < 86400

\* a day gave a row within the day and a row at 86400 s, which is the next day
C6_Witness ==
    /\ DayParsed
    /\ \E n \in 1..Len(df) : df[n].time = current_day
    /\ \E n \in 1..Len(df) :
          df[n].time = [ordinal |-> current_day.ordinal + 1, second |-> 0]

\* (C8 as stated) on a response that is not a 404 and has an empty body, or a
\* body that does not decompress, read_day returns normally to its caller.
C8_ReturnsNormally ==
    (res.net = "ok" /\ res.status # 404 /\ res.body.kind \in {"empty", "corrupt"}) =>
        (pc # "raised" /\ error = "")

\* (C9 as stated) a response with a status other than 200 and 404, or a
\* network failure, makes the call raise: no rows come from it and no table
\* is returned.
C9_FailurePropagates ==
    (res.net = "error" \/ (res.net = "ok" /\ res.status \notin {200, 404})) =>
        (pc = "raised" /\ error # "" /\ ~returned)

====
